---- MODULE Spec2Model ----
(***************************************************************************)
(* A model of src/app.py: the Grove Street departure board.                *)
(*                                                                         *)
(* Two request handlers are modelled.  /api/departures fetches the transit *)
(* payload and normalises it (get_grove_street_departures); /api/weather   *)
(* queries the weather provider for two locations and falls back to the    *)
(* solar approximation (get_weather_data, calculate_sunrise_sunset).       *)
(*                                                                         *)
(* Python values are tagged records, strings are sequences of one-         *)
(* character strings (so that str(), isdigit(), int() and the time         *)
(* formatting are computed, not assumed), dicts are functions from keys to *)
(* values, and a call either returns (Ok) or raises (Raise).               *)
(***************************************************************************)
EXTENDS Integers, Sequences, FiniteSets, TLC

VARIABLES
    transit,        \* what the transit provider answers to this request
    response,       \* the HTTP response of the handler, NoResponse before
    pc,             \* where get_weather_data stands
    loc,            \* the index in locations of the next iteration
    loop,           \* the locals of get_weather_data: results, sunrise_time,
                    \* sunset_time, and what calculate_sunrise_sunset last returned
    requests,       \* the weather requests issued so far, by location key
    answers,        \* what the weather provider answered to each of them
    caught,         \* the exception bound by `except Exception as e`
    sun             \* what the hour-angle computation yields today

vars == <<transit, response, pc, loc, loop, requests, answers, caught, sun>>

(***************************************************************************)
(* Bounds of the model.                                                    *)
(***************************************************************************)
\* destination groups plus messages inside the matched station
MaxItems == 4
\* stations in the 'results' list of the station-scan payloads
MaxStations == 2

(***************************************************************************)
(* Python values.                                                          *)
(***************************************************************************)
JNull == [t |-> "null"]
JInt(n) == [t |-> "int", n |-> n]
JStr(cs) == [t |-> "str", s |-> cs]
JList(xs) == [t |-> "list", items |-> xs]
JObj(m) == [t |-> "obj", m |-> m]
EmptyMap == [k \in {} |-> JNull]

Ok(v) == [k |-> "ok", v |-> v]
Raise(e) == [k |-> "raise", exc |-> e]

\* bool(v): None, 0, '', [] and {} are falsy
Truthy(v) ==
    CASE v.t = "null" -> FALSE
      [] v.t = "int" -> v.n # 0
      [] v.t = "float" -> v.tenths # 0
      [] v.t = "str" -> v.s # <<>>
      [] v.t = "list" -> v.items # <<>>
      [] v.t = "obj" -> DOMAIN v.m # {}

\* v.get(key, default): only a dict has .get
PyGet(v, key, default) ==
    IF v.t = "obj"
    THEN Ok(IF key \in DOMAIN v.m THEN v.m[key] ELSE default)
    ELSE Raise("AttributeError")

IsSubstring(needle, hay) ==
    \E off \in 0..(Len(hay) - Len(needle)) :
        \A j \in 1..Len(needle) : hay[off + j] = needle[j]

\* `chars in v` for the str whose characters are chars and whose dict key is key
PyContains(v, key, chars) ==
    CASE v.t = "obj" -> Ok(key \in DOMAIN v.m)
      [] v.t = "list" -> Ok(\E j \in 1..Len(v.items) : v.items[j] = JStr(chars))
      [] v.t = "str" -> Ok(IsSubstring(chars, v.s))
      [] OTHER -> Raise("TypeError")

\* v[key] with a str key
PySubscript(v, key) ==
    IF v.t = "obj"
    THEN IF key \in DOMAIN v.m THEN Ok(v.m[key]) ELSE Raise("KeyError")
    ELSE Raise("TypeError")

RECURSIVE SetToSeq(_)
SetToSeq(S) ==
    IF S = {} THEN <<>>
    ELSE LET x == CHOOSE y \in S : TRUE IN <<x>> \o SetToSeq(S \ {x})

\* `for x in v`: a list yields its items, a str its characters, a dict its
\* keys (each a str); None and numbers are not iterable
PyIter(v) ==
    CASE v.t = "list" -> Ok(v.items)
      [] v.t = "str" -> Ok([j \in 1..Len(v.s) |-> JStr(<<v.s[j]>>)])
      [] v.t = "obj" -> LET ks == SetToSeq(DOMAIN v.m)
                        IN Ok([j \in 1..Len(ks) |-> JStr(<<ks[j]>>)])
      [] OTHER -> Raise("TypeError")

DigitChars == <<"0", "1", "2", "3", "4", "5", "6", "7", "8", "9">>
DigitChar(d) == DigitChars[d + 1]
DigitVal(c) == CHOOSE d \in 0..9 : DigitChars[d + 1] = c

RECURSIVE NatToChars(_)
NatToChars(n) ==
    IF n < 10 THEN <<DigitChar(n)>>
    ELSE NatToChars(n \div 10) \o <<DigitChar(n % 10)>>

IntToChars(n) == IF n < 0 THEN <<"-">> \o NatToChars(-n) ELSE NatToChars(n)

\* str(v)
PyStr(v) ==
    CASE v.t = "str" -> v.s
      [] v.t = "int" -> IntToChars(v.n)
      [] v.t = "float" -> IntToChars(v.tenths \div 10) \o <<".">>
                            \o NatToChars(v.tenths % 10)
      [] v.t = "null" -> <<"N", "o", "n", "e">>
      [] v.t = "list" -> <<"[", "]">>
      [] v.t = "obj" -> <<"{", "}">>

\* s.isdigit(): non-empty and every character a digit
IsDigit(cs) ==
    /\ cs # <<>>
    /\ \A j \in 1..Len(cs) : \E d \in 0..9 : DigitChars[d + 1] = cs[j]

RECURSIVE CharsToNat(_)
CharsToNat(cs) ==
    IF cs = <<>> THEN 0
    ELSE 10 * CharsToNat(SubSeq(cs, 1, Len(cs) - 1)) + DigitVal(cs[Len(cs)])

\* int(v) of an int or of a str of decimal digits
PyInt(v) == IF v.t = "int" THEN v.n ELSE CharsToNat(v.s)

(***************************************************************************)
(* /api/departures.                                                        *)
(***************************************************************************)
Chars_results == <<"r", "e", "s", "u", "l", "t", "s">>
GRV == <<"G", "R", "V">>
ToNY == <<"T", "o", "N", "Y">>
Sentinel == 9999

\* fetch_path_data: the parsed body, or None when requests.get, raise_for_status
\* or response.json() raises a RequestException
fetch_path_data(up) == IF up.kind = "json" THEN up.body ELSE JNull

\* a variant that tests for the other label: "To New Jersey" if label == "ToNJ"
DirectionByToNJ(label) ==
    IF label = JStr(<<"T", "o", "N", "J">>) THEN "To New Jersey" ELSE "To New York"

\* direction = "To New York" if label == "ToNY" else "To New Jersey"
Direction(label) ==
    IF label = JStr(ToNY) THEN "To New York" ELSE "To New Jersey"

\* the dict built for one message of a destination group; message.get raises
\* when the message is not a dict
Departure(direction, message) ==
    IF message.t # "obj" THEN Raise("AttributeError")
    ELSE Ok([direction |-> direction,
             destination |-> PyGet(message, "headSign", JStr(<<>>)).v,
             arrival_time |-> PyGet(message, "arrivalTimeMessage", JStr(<<>>)).v,
             seconds_to_arrival |-> PyGet(message, "secondsToArrival", JInt(0)).v,
             line_color |-> PyGet(message, "lineColor", JStr(<<>>)).v,
             last_updated |-> PyGet(message, "lastUpdated", JStr(<<>>)).v,
             target |-> PyGet(message, "target", JStr(<<>>)).v])

\* the inner loop: for message in destination.get('messages', [])
RECURSIVE MessageLoop(_, _, _, _)
MessageLoop(direction, messages, j, departures) ==
    IF j > Len(messages) THEN Ok(departures)
    ELSE LET d == Departure(direction, messages[j])
         IN IF d.k = "raise" THEN d
            ELSE MessageLoop(direction, messages, j + 1, Append(departures, d.v))

\* the outer loop: for destination in station.get('destinations', [])
RECURSIVE DestinationLoop(_, _, _)
DestinationLoop(destinations, j, departures) ==
    IF j > Len(destinations) THEN Ok(departures)
    ELSE LET label == PyGet(destinations[j], "label", JStr(<<>>))
         IN IF label.k = "raise" THEN label
            ELSE LET msgs == PyIter(PyGet(destinations[j], "messages", JList(<<>>)).v)
                 IN IF msgs.k = "raise" THEN msgs
                    ELSE LET r == MessageLoop(Direction(label.v), msgs.v, 1, departures)
                         IN IF r.k = "raise" THEN r
                            ELSE DestinationLoop(destinations, j + 1, r.v)

\* the departures list of the matched station before it is sorted
Flatten(station) ==
    LET dests == PyIter(PyGet(station, "destinations", JList(<<>>)).v)
    IN IF dests.k = "raise" THEN dests ELSE DestinationLoop(dests.v, 1, <<>>)

\* key=lambda x: int(x['seconds_to_arrival'])
\*               if str(x['seconds_to_arrival']).isdigit() else 9999
SortKey(x) ==
    IF IsDigit(PyStr(x.seconds_to_arrival))
    THEN PyInt(x.seconds_to_arrival)
    ELSE Sentinel

\* a variant that is not stable: x goes before the elements of equal key
RECURSIVE SortInsertTiesFirst(_, _)
SortInsertTiesFirst(sorted, x) ==
    IF sorted = <<>> THEN <<x>>
    ELSE LET last == sorted[Len(sorted)]
         IN IF SortKey(last) < SortKey(x)
            THEN Append(sorted, x)
            ELSE Append(SortInsertTiesFirst(SubSeq(sorted, 1, Len(sorted) - 1), x), last)

\* list.sort is stable: x goes after every element whose key is not greater
RECURSIVE SortInsert(_, _)
SortInsert(sorted, x) ==
    IF sorted = <<>> THEN <<x>>
    ELSE LET last == sorted[Len(sorted)]
         IN IF SortKey(last) <= SortKey(x)
            THEN Append(sorted, x)
            ELSE Append(SortInsert(SubSeq(sorted, 1, Len(sorted) - 1), x), last)

RECURSIVE SortByKey(_)
SortByKey(xs) ==
    IF xs = <<>> THEN <<>>
    ELSE SortInsert(SortByKey(SubSeq(xs, 1, Len(xs) - 1)), xs[Len(xs)])

\* for station in data['results']: the first station whose consideredStation
\* is 'GRV' decides the result
RECURSIVE StationLoop(_, _)
StationLoop(stations, j) ==
    IF j > Len(stations) THEN Ok(JNull)
    ELSE LET id == PyGet(stations[j], "consideredStation", JNull)
         IN IF id.k = "raise" THEN id
            ELSE IF id.v = JStr(GRV)
                 THEN LET flat == Flatten(stations[j])
                      IN IF flat.k = "raise" THEN flat
                         ELSE Ok(JList(SortByKey(flat.v)))
                 ELSE StationLoop(stations, j + 1)

get_grove_street_departures(up) ==
    LET data == fetch_path_data(up)
    IN IF ~Truthy(data) THEN Ok(JNull)
       ELSE LET has == PyContains(data, "results", Chars_results)
            IN IF has.k = "raise" THEN has
               ELSE IF ~has.v THEN Ok(JNull)
               ELSE LET res == PySubscript(data, "results")
                    IN IF res.k = "raise" THEN res
                       ELSE LET stations == PyIter(res.v)
                            IN IF stations.k = "raise" THEN stations
                               ELSE StationLoop(stations.v, 1)

NoResponse == [status |-> 0]

\* api_departures: jsonify of the departures, or the framework's 500 when
\* get_grove_street_departures raises
api_departures(up) ==
    LET departures == get_grove_street_departures(up)
    IN IF departures.k = "raise"
       THEN [status |-> 500, exc |-> departures.exc]
       ELSE [status |-> 200,
             departures |-> departures.v,
             station |-> "Grove Street (GRV)"]

(***************************************************************************)
(* The transit provider's answers the model draws from.                    *)
(***************************************************************************)
Text(c) == JStr(<<c>>)

\* secondsToArrival as the provider sends it, and the forms the sort meets
SecondsValues ==
    { JStr(<<"0">>), JStr(<<"1", "2", "0">>), JStr(<<"9", "9", "9", "9">>),
      JStr(<<"1", "0", "0", "0", "0">>), JStr(<<"a", "b", "c">>), JStr(<<>>),
      JStr(<<"-", "5">>), JInt(30) }

Message(sec) ==
    JObj([headSign |-> JStr(<<"W", "T", "C">>),
          arrivalTimeMessage |-> JStr(<<"2", "m">>),
          secondsToArrival |-> sec,
          lineColor |-> JStr(<<"D", "9">>),
          lastUpdated |-> JStr(<<"T", "1">>),
          target |-> JStr(<<"W", "T", "C">>)])

\* a message with every field, a message with none, and one that is no dict
Messages == {Message(sec) : sec \in SecondsValues} \cup {JObj(EmptyMap), JNull}

Labels == {JStr(ToNY), JStr(<<"T", "o", "N", "J">>), JStr(<<>>)}

Destination(label, messages) == JObj([label |-> label, messages |-> messages])

\* a destination group before its messages are known, with one of the labels
\* or without label; and the groups that take no messages: one without
\* messages, one whose messages are no list, and one that is no dict
OpenGroups ==
    { Destination(l, JList(<<>>)) : l \in Labels }
    \cup { JObj([messages |-> JList(<<>>)]) }
ClosedGroups ==
    { JObj([label |-> JStr(ToNY)]),
      Destination(JStr(ToNY), JNull),
      JNull }

\* The destinations of the matched station are written as a sequence of
\* items, each a destination group or a message of the group before it.
Items == OpenGroups \cup ClosedGroups \cup { [msg |-> m] : m \in Messages }

IsMessageItem(it) == "msg" \in DOMAIN it

\* a message item needs a group to go into: the item before it is a message
\* or a group with a messages list
WellPlaced(items) ==
    \A j \in 1..Len(items) :
        IsMessageItem(items[j]) =>
            /\ j > 1
            /\ IsMessageItem(items[j - 1]) \/ items[j - 1] \in OpenGroups

RECURSIVE Grouped(_)
Grouped(items) ==
    IF items = <<>> THEN <<>>
    ELSE LET n == Len(items)
             before == Grouped(SubSeq(items, 1, n - 1))
             it == items[n]
         IN IF IsMessageItem(it)
            THEN LET g == before[Len(before)]
                 IN [before EXCEPT ![Len(before)] =
                        JObj([g.m EXCEPT !["messages"] =
                                JList(Append(g.m["messages"].items, it.msg))])]
            ELSE Append(before, it)

Station(id, destinations) ==
    JObj([consideredStation |-> id, destinations |-> destinations])

\* Grove Street stations with destinations absent or not a list
OddMatchedStations ==
    { JObj([consideredStation |-> JStr(GRV)]),
      Station(JStr(GRV), JNull),
      Station(JStr(GRV), Text("x")) }

\* the stations of the station-scan payloads: two different Grove Street
\* stations, another station, one without an id, and one that is no dict
ScanStations ==
    { Station(JStr(GRV),
              JList(<<Destination(JStr(ToNY),
                                  JList(<<Message(JStr(<<"1", "2", "0">>))>>))>>)),
      Station(JStr(GRV),
              JList(<<Destination(JStr(<<>>), JList(<<Message(JStr(<<"0">>))>>))>>)),
      Station(JStr(<<"N", "W", "K">>),
              JList(<<Destination(JStr(ToNY), JList(<<Message(JStr(<<"0">>))>>))>>)),
      JObj([destinations |-> JList(<<>>)]),
      JNull }

ScanLists == UNION { [1..n -> ScanStations] : n \in 0..MaxStations }

\* bodies that are JSON but not a dict with a list of stations
OddBodies ==
    { JNull, JInt(0), JInt(5), JStr(<<>>), JStr(Chars_results), Text("x"),
      JList(<<>>), JList(<<JStr(Chars_results)>>), JList(<<JInt(1)>>),
      JObj(EmptyMap), JObj([message |-> Text("x")]),
      JObj([results |-> JNull]), JObj([results |-> JInt(5)]),
      JObj([results |-> JStr(<<>>)]), JObj([results |-> Text("x")]),
      JObj([results |-> JObj(EmptyMap)]),
      JObj([results |-> JObj([GRV |-> JList(<<>>)])]) }

Bodies ==
    { JObj([results |-> JList(<<st>>)]) : st \in OddMatchedStations }
    \cup { JObj([results |-> JList(sts)]) : sts \in ScanLists }
    \cup OddBodies

\* requests.get times out or cannot connect, raise_for_status meets a non-2xx
\* status, response.json() meets a body that is not JSON, or a JSON body
TransitAnswers ==
    { [kind |-> "timeout"], [kind |-> "http_error"], [kind |-> "bad_json"] }
    \cup { [kind |-> "json", body |-> b] : b \in Bodies }

(***************************************************************************)
(* /api/weather: the solar approximation.                                  *)
(***************************************************************************)
MinutesPerDay == 1440

\* Times inside calculate_sunrise_sunset are counted in half minutes, so that
\* round() meets values that lie halfway between two minutes.  Noon, and the
\* longitude and zone shift -(GROVE_STREET_LON / 15) + 1 hours, in half minutes.
NoonHalfMinutes == 1440
ShiftHalfMinutes == 712

\* round(n / d) for d > 0: Python rounds to the nearest integer, a tie to the
\* even one
PyRoundRatio(n, d) ==
    LET q == n \div d
        r == n % d
    IN IF 2 * r < d THEN q
       ELSE IF 2 * r > d THEN q + 1
       ELSE IF q % 2 = 0 THEN q ELSE q + 1

\* f"{n:02d}" for 0 <= n
TwoDigits(n) == IF n < 10 THEN <<"0">> \o NatToChars(n) ELSE NatToChars(n)

\* format_hour_to_hhmm(hour_float), the hour given in half minutes
format_hour_to_hhmm(halfMinutes) ==
    LET total_minutes == PyRoundRatio(halfMinutes, 2) % MinutesPerDay
        hours == total_minutes \div 60
        minutes == total_minutes % 60
    IN TwoDigits(hours) \o <<":">> \o TwoDigits(minutes)

\* return "6:30", "18:30"  # Fallback times
FallbackTimes ==
    [sunrise |-> <<"6", ":", "3", "0">>, sunset |-> <<"1", "8", ":", "3", "0">>]

\* calculate_sunrise_sunset: solar is what math.acos gives for today's
\* declination, an hour angle (ha * 12 / pi, in half minutes) or a ValueError
calculate_sunrise_sunset(solar) ==
    IF solar.kind = "domain_error" THEN FallbackTimes
    ELSE [sunrise |-> format_hour_to_hhmm(NoonHalfMinutes - solar.hourAngle
                                          + ShiftHalfMinutes),
          sunset |-> format_hour_to_hhmm(NoonHalfMinutes + solar.hourAngle
                                         + ShiftHalfMinutes)]

(***************************************************************************)
(* /api/weather: the aggregation.                                          *)
(***************************************************************************)
JFloat(tenths) == [t |-> "float", tenths |-> tenths]
Chars_daily == <<"d", "a", "i", "l", "y">>
NotAvailable == JStr(<<"N", "/", "A">>)
DefaultIcon == "sun_small_cloud"

\* locations.items(), in the order of the dict literal
LocationKeys == <<"jersey_city", "manhattan">>
LocationName(key) == IF key = "jersey_city" THEN "Jersey City" ELSE "Manhattan"

weather_icons ==
    (0 :> "sun") @@ (1 :> "sun_small_cloud") @@ (2 :> "sun_cloud")
    @@ (3 :> "cloud") @@ (45 :> "fog") @@ (48 :> "fog")
    @@ (51 :> "sun_rain") @@ (53 :> "rain") @@ (55 :> "rain")
    @@ (61 :> "rain") @@ (63 :> "rain") @@ (65 :> "thunder")
    @@ (71 :> "snow_cloud") @@ (73 :> "snow_cloud") @@ (75 :> "snowflake")
    @@ (95 :> "thunder")

\* round(v): of a number only
PyRound(v) ==
    CASE v.t = "int" -> Ok(v.n)
      [] v.t = "float" -> Ok(PyRoundRatio(v.tenths, 10))
      [] OTHER -> Raise("TypeError")

\* weather_icons.get(code, default): a list or dict is unhashable
IconFor(code) ==
    CASE code.t \in {"list", "obj"} -> Raise("TypeError")
      [] code.t = "int" -> Ok(IF code.n \in DOMAIN weather_icons
                              THEN weather_icons[code.n] ELSE DefaultIcon)
      [] OTHER -> Ok(DefaultIcon)

\* results[key] = {...}; "deg" stands for the degree sign of f"{temp_c}(deg)C"
Snapshot(key, temp_c, icon) ==
    [name |-> LocationName(key),
     temperature_c |-> JStr(IntToChars(temp_c) \o <<"deg", "C">>),
     icon |-> icon]

\* the snapshot of the except branch
Placeholder(key) ==
    [name |-> LocationName(key), temperature_c |-> NotAvailable, icon |-> DefaultIcon]

AllDigits(cs, from, to) ==
    \A j \in from..to : \E d \in 0..9 : DigitChars[d + 1] = cs[j]

DaysInMonth(year, month) ==
    IF month = 2
    THEN IF year % 4 = 0 /\ (year % 100 # 0 \/ year % 400 = 0) THEN 29 ELSE 28
    ELSE IF month \in {4, 6, 9, 11} THEN 30 ELSE 31

\* datetime.fromisoformat(v).strftime('%H:%M') for the provider's
\* "YYYY-MM-DDTHH:MM"; anything else raises
IsoToHHMM(v) ==
    IF v.t # "str" THEN Raise("TypeError")
    ELSE LET cs == v.s
         IN IF /\ Len(cs) = 16
               /\ AllDigits(cs, 1, 4) /\ cs[5] = "-"
               /\ AllDigits(cs, 6, 7) /\ cs[8] = "-"
               /\ AllDigits(cs, 9, 10) /\ cs[11] = "T"
               /\ AllDigits(cs, 12, 13) /\ cs[14] = ":"
               /\ AllDigits(cs, 15, 16)
               /\ CharsToNat(SubSeq(cs, 1, 4)) >= 1
               /\ CharsToNat(SubSeq(cs, 6, 7)) \in 1..12
               /\ CharsToNat(SubSeq(cs, 9, 10))
                    \in 1..DaysInMonth(CharsToNat(SubSeq(cs, 1, 4)),
                                       CharsToNat(SubSeq(cs, 6, 7)))
               /\ CharsToNat(SubSeq(cs, 12, 13)) <= 23
               /\ CharsToNat(SubSeq(cs, 15, 16)) <= 59
            THEN Ok(TwoDigits(CharsToNat(SubSeq(cs, 12, 13))) \o <<":">>
                    \o TwoDigits(CharsToNat(SubSeq(cs, 15, 16))))
            ELSE Raise("ValueError")

\* v[0]
PyFirst(v) ==
    CASE v.t = "list" /\ v.items # <<>> -> Ok(v.items[1])
      [] v.t = "str" /\ v.s # <<>> -> Ok(JStr(<<v.s[1]>>))
      [] v.t = "list" \/ v.t = "str" -> Raise("IndexError")
      [] v.t = "obj" -> Raise("KeyError")
      [] OTHER -> Raise("TypeError")

\* a variant without `sunrise_time is None`: every response with daily counts
ShouldCaptureAlways(sunrise_time, data) ==
    PyContains(data, "daily", Chars_daily).v

\* if sunrise_time is None and 'daily' in data
ShouldCapture(sunrise_time, data) ==
    sunrise_time = JNull /\ PyContains(data, "daily", Chars_daily).v

\* the try block that parses the first sunrise and sunset, and its except
ParseDaily(sunrise_list, sunset_list, solar) ==
    LET sunrise_iso == PyFirst(sunrise_list)
        sunset_iso == PyFirst(sunset_list)
        sunrise == IF sunrise_iso.k = "raise" THEN sunrise_iso
                   ELSE IsoToHHMM(sunrise_iso.v)
        sunset == IF sunset_iso.k = "raise" THEN sunset_iso
                  ELSE IsoToHHMM(sunset_iso.v)
    IN IF sunrise.k = "raise" \/ sunset.k = "raise"
       THEN LET c == calculate_sunrise_sunset(solar)
            IN [sunrise_time |-> JStr(c.sunrise), sunset_time |-> JStr(c.sunset),
                calc |-> c]
       ELSE [sunrise_time |-> JStr(sunrise.v), sunset_time |-> JStr(sunset.v)]

\* the capture of sunrise and sunset at the end of one iteration
Capture(data, locals, solar) ==
    IF ~ShouldCapture(locals.sunrise_time, data) THEN Ok(locals)
    ELSE LET daily == PyGet(data, "daily", JObj(EmptyMap)).v
             sunrise_list == PyGet(daily, "sunrise", JList(<<>>))
             sunset_list == PyGet(daily, "sunset", JList(<<>>))
         IN IF sunrise_list.k = "raise" THEN sunrise_list
            ELSE IF Truthy(sunrise_list.v) /\ Truthy(sunset_list.v)
                 THEN LET got == ParseDaily(sunrise_list.v, sunset_list.v, solar)
                      IN Ok([locals EXCEPT !.sunrise_time = got.sunrise_time,
                                         !.sunset_time = got.sunset_time,
                                         !.calc = IF "calc" \in DOMAIN got
                                                  THEN got.calc ELSE @])
                 ELSE Ok(locals)

\* one iteration of `for key, loc in locations.items()`: the request, the
\* snapshot and the capture; locals holds results, sunrise_time, sunset_time
\* and the last return value of calculate_sunrise_sunset
Iteration(key, answer, locals, solar) ==
    IF answer.kind # "json" THEN Raise(answer.kind)
    ELSE LET data == answer.body
             current == PyGet(data, "current_weather", JObj(EmptyMap))
         IN IF current.k = "raise" THEN current
            ELSE LET temperature == PyGet(current.v, "temperature", JInt(0))
                 IN IF temperature.k = "raise" THEN temperature
                    ELSE LET temp_c == PyRound(temperature.v)
                             icon == IconFor(PyGet(current.v, "weathercode", JInt(0)).v)
                         IN IF temp_c.k = "raise" THEN temp_c
                            ELSE IF icon.k = "raise" THEN icon
                            ELSE Capture(data,
                                         [locals EXCEPT !.results =
                                            (key :> Snapshot(key, temp_c.v, icon.v)) @@ @],
                                         solar)

\* results.get(key, {})
ResultOf(results, key) == IF key \in DOMAIN results THEN results[key] ELSE EmptyMap

\* the return after the locals, with the fallback when no times were captured
ReturnAfterLoop(locals, solar) ==
    LET c == calculate_sunrise_sunset(solar)
        fallback == locals.sunrise_time = JNull \/ locals.sunset_time = JNull
    IN [payload |->
            [jersey_city |-> ResultOf(locals.results, "jersey_city"),
             manhattan |-> ResultOf(locals.results, "manhattan"),
             sunrise |-> IF fallback THEN JStr(c.sunrise) ELSE locals.sunrise_time,
             sunset |-> IF fallback THEN JStr(c.sunset) ELSE locals.sunset_time],
        calc |-> IF fallback THEN c ELSE locals.calc]

\* a variant that keeps the snapshots made before the exception
ReturnOnExceptionKeeping(locals, solar) ==
    LET c == calculate_sunrise_sunset(solar)
        kept(key) == IF key \in DOMAIN locals.results
                     THEN locals.results[key] ELSE Placeholder(key)
    IN [payload |->
            [jersey_city |-> kept("jersey_city"),
             manhattan |-> kept("manhattan"),
             sunrise |-> JStr(c.sunrise),
             sunset |-> JStr(c.sunset)],
        calc |-> c]

\* the return of `except Exception`
ReturnOnException(locals, solar) ==
    LET c == calculate_sunrise_sunset(solar)
    IN [payload |->
            [jersey_city |-> Placeholder("jersey_city"),
             manhattan |-> Placeholder("manhattan"),
             sunrise |-> JStr(c.sunrise),
             sunset |-> JStr(c.sunset)],
        calc |-> c]

(***************************************************************************)
(* The weather provider's answers and the sun's positions the model draws  *)
(* from.                                                                   *)
(***************************************************************************)
Iso(hh, mm) ==
    JStr(<<"2", "0", "2", "6", "-", "1", "1", "-", "0", "6", "T">>
         \o hh \o <<":">> \o mm)

Current(temperature, weathercode) ==
    JObj([temperature |-> temperature, weathercode |-> weathercode])

Daily(sunrise, sunset) == JObj([sunrise |-> JList(sunrise), sunset |-> JList(sunset)])

\* temperatures 21.5, 22.5, -0.5, 18.4, -3.7 and 7
Temperatures == {JFloat(215), JFloat(225), JFloat(-5), JFloat(184), JFloat(-37), JInt(7)}
WeatherCodes == {JInt(0), JInt(95), JInt(42), Text("3")}

\* current_weather as documented, without its fields, and malformed: null,
\* a temperature that is no number, a code that is a list
Currents ==
    { Current(temp, code) : temp \in Temperatures, code \in WeatherCodes }
    \cup { JObj(EmptyMap), JNull, Current(Text("x"), JInt(0)),
           Current(JNull, JInt(0)), Current(JFloat(184), JList(<<>>)) }

SunriseLists ==
    { <<>>, <<Iso(<<"0", "6">>, <<"3", "1">>)>>, <<Iso(<<"0", "6">>, <<"3", "2">>)>>,
      <<Iso(<<"2", "5">>, <<"3", "1">>)>>, <<Text("x")>>, <<JInt(5)>> }
SunsetLists ==
    { <<>>, <<Iso(<<"1", "6">>, <<"4", "7">>)>>, <<Iso(<<"1", "6">>, <<"6", "0">>)>> }

Dailies ==
    { Daily(up, down) : up \in SunriseLists, down \in SunsetLists }
    \cup { JObj(EmptyMap), JNull, JObj([sunrise |-> JList(<<Iso(<<"0", "6">>, <<"3", "1">>)>>)]) }

RegularCurrent == Current(JFloat(184), JInt(3))
RegularDaily == Daily(<<Iso(<<"0", "6">>, <<"3", "1">>)>>, <<Iso(<<"1", "6">>, <<"4", "7">>)>>)

WeatherBodies ==
    { JObj([current_weather |-> c, daily |-> RegularDaily]) : c \in Currents }
    \cup { JObj([current_weather |-> RegularCurrent, daily |-> d]) : d \in Dailies }
    \cup { JObj([current_weather |-> c]) : c \in {RegularCurrent, Current(JFloat(225), JInt(42))} }
    \cup { JObj([daily |-> RegularDaily]), JObj(EmptyMap), JNull, JList(<<>>) }

WeatherAnswers ==
    { [kind |-> "timeout"], [kind |-> "http_error"], [kind |-> "bad_json"] }
    \cup { [kind |-> "json", body |-> b] : b \in WeatherBodies }

\* math.acos returns an angle in [0, pi], so ha * 12 / pi lies in [0, 12]
\* hours, here in half minutes; or its argument is out of [-1, 1]
HourAngles == {0, 1, 3, 552, 725, 727, 728, 888, 1440}
SunPositions ==
    { [kind |-> "angle", hourAngle |-> ha] : ha \in HourAngles }
    \cup { [kind |-> "domain_error"] }

(***************************************************************************)
(* The state machine: one request to /api/departures (Spec) and one        *)
(* request to /api/weather (SpecWeather).                                  *)
(***************************************************************************)
NoAnswer == [kind |-> "none"]
NoCalc == [kind |-> "none"]
NoException == "none"
NoLocals == [results |-> EmptyMap, sunrise_time |-> JNull, sunset_time |-> JNull,
             calc |-> NoCalc]

\* a Grove Street station for every list of destination groups within MaxItems
InitMatched ==
    \E n \in 0..MaxItems : \E items \in [1..n -> Items] :
        /\ WellPlaced(items)
        /\ transit = [kind |-> "json",
                      body |-> JObj([results |->
                          JList(<<Station(JStr(GRV), JList(Grouped(items)))>>)])]

Init ==
    /\ transit \in TransitAnswers \/ InitMatched
    /\ response = NoResponse
    /\ pc = "idle"
    /\ loc = 1
    /\ loop = NoLocals
    /\ requests = <<>>
    /\ answers = <<>>
    /\ caught = NoException
    /\ sun = [kind |-> "none"]

ApiDepartures ==
    /\ response = NoResponse
    /\ response' = api_departures(transit)
    /\ UNCHANGED <<transit, pc, loc, loop, requests, answers, caught, sun>>

Next == ApiDepartures

Spec == Init /\ [][Next]_vars

\* get_weather_data is entered: results = {}, sunrise_time = sunset_time = None
InitWeather ==
    /\ transit = NoAnswer
    /\ response = NoResponse
    /\ pc = "loop"
    /\ loc = 1
    /\ loop = NoLocals
    /\ requests = <<>>
    /\ answers = <<>>
    /\ caught = NoException
    /\ sun \in SunPositions

\* one iteration of the loop over the locations; an exception leaves the loop
\* for the except branch
WeatherIteration ==
    /\ pc = "loop"
    /\ \E answer \in WeatherAnswers :
        LET key == LocationKeys[loc]
            r == Iteration(key, answer, loop, sun)
        IN /\ requests' = Append(requests, key)
           /\ answers' = Append(answers, answer)
           /\ IF r.k = "raise"
              THEN /\ pc' = "except"
                   /\ caught' = r.exc
                   /\ UNCHANGED <<loc, loop>>
              ELSE /\ loop' = r.v
                   /\ loc' = loc + 1
                   /\ pc' = IF loc = Len(LocationKeys) THEN "after_loop" ELSE "loop"
                   /\ UNCHANGED caught
    /\ UNCHANGED <<transit, response, sun>>

\* the fallback after the loop and the return
WeatherReturn ==
    /\ pc = "after_loop"
    /\ LET r == ReturnAfterLoop(loop, sun)
       IN /\ response' = [status |-> 200, weather |-> r.payload]
          /\ loop' = [loop EXCEPT !.calc = r.calc]
    /\ pc' = "done"
    /\ UNCHANGED <<transit, loc, requests, answers, caught, sun>>

\* except Exception: the placeholders and the computed times
WeatherExcept ==
    /\ pc = "except"
    /\ LET r == ReturnOnException(loop, sun)
       IN /\ response' = [status |-> 200, weather |-> r.payload]
          /\ loop' = [loop EXCEPT !.calc = r.calc]
    /\ pc' = "done"
    /\ UNCHANGED <<transit, loc, requests, answers, caught, sun>>

NextWeather == WeatherIteration \/ WeatherReturn \/ WeatherExcept

SpecWeather == InitWeather /\ [][NextWeather]_vars

(***************************************************************************)
(* What the payload holds, read off the payload itself.                    *)
(***************************************************************************)
Done == response # NoResponse
Returned == Done /\ response.status = 200
ReturnedList == Returned /\ response.departures.t = "list"

\* the 'results' list of the answer, empty when there is none
ResultsOf(up) ==
    IF /\ up.kind = "json"
       /\ up.body.t = "obj"
       /\ "results" \in DOMAIN up.body.m
       /\ up.body.m["results"].t = "list"
    THEN up.body.m["results"].items
    ELSE <<>>

IsMatch(st) ==
    /\ st.t = "obj"
    /\ "consideredStation" \in DOMAIN st.m
    /\ st.m["consideredStation"] = JStr(GRV)

HasMatch(up) == \E j \in 1..Len(ResultsOf(up)) : IsMatch(ResultsOf(up)[j])

FirstMatch(up) ==
    LET sts == ResultsOf(up)
        j == CHOOSE a \in 1..Len(sts) :
                IsMatch(sts[a]) /\ \A b \in 1..(a - 1) : ~IsMatch(sts[b])
    IN sts[j]

\* the destination groups of a station that are dicts, in order
GroupsOf(st) ==
    IF "destinations" \in DOMAIN st.m /\ st.m["destinations"].t = "list"
    THEN st.m["destinations"].items
    ELSE <<>>

MessagesOf(g) ==
    IF g.t = "obj" /\ "messages" \in DOMAIN g.m /\ g.m["messages"].t = "list"
    THEN g.m["messages"].items
    ELSE <<>>

IsToNY(g) == g.t = "obj" /\ "label" \in DOMAIN g.m /\ g.m["label"] = JStr(ToNY)

RECURSIVE CountMessages(_, _)
CountMessages(groups, toNY) ==
    IF groups = <<>> THEN 0
    ELSE CountMessages(SubSeq(groups, 2, Len(groups)), toNY)
         + (IF IsToNY(groups[1]) = toNY THEN Len(MessagesOf(groups[1])) ELSE 0)

CountWhere(xs, direction) ==
    Cardinality({ j \in 1..Len(xs) : xs[j].direction = direction })

\* a seconds value is numeric when it is a number or a string of digits
IsNumeric(v) == v.t = "int" \/ (v.t = "str" /\ IsDigit(v.s))
NumericValue(v) == IF v.t = "int" THEN v.n ELSE CharsToNat(v.s)

\* two records tie: equal numeric seconds, or both non-numeric
Tie(x, y) ==
    LET a == x.seconds_to_arrival
        b == y.seconds_to_arrival
    IN IF IsNumeric(a) /\ IsNumeric(b) THEN NumericValue(a) = NumericValue(b)
       ELSE ~IsNumeric(a) /\ ~IsNumeric(b)

(***************************************************************************)
(* The claims about /api/departures.                                       *)
(***************************************************************************)

\* C2: in every returned list seconds_to_arrival is non-decreasing over the
\* numeric entries, and no non-numeric entry stands before a numeric one,
\* whatever the numeric value (9999 and more included).
C2_NonNumericLast ==
    ReturnedList =>
        LET out == response.departures.items
        IN \A a, b \in 1..Len(out) :
            a < b =>
                LET x == out[a].seconds_to_arrival
                    y == out[b].seconds_to_arrival
                IN /\ (IsNumeric(x) /\ IsNumeric(y)) => NumericValue(x) <= NumericValue(y)
                   /\ ~(~IsNumeric(x) /\ IsNumeric(y))

\* C3: /api/departures never ends in an error: whatever the transit provider
\* answers, the response is a success whose departures is a list or null.
C3_NeverAnError ==
    Done => /\ response.status = 200
            /\ response.departures.t \in {"list", "null"}

\* C5: the departures are null when the payload is missing, has no results or
\* no station GRV, and a list, with one record per message of the first
\* station GRV, whenever such a station is present.
C5_AbsentOrList ==
    Done =>
        /\ response.status = 200
        /\ IF HasMatch(transit)
           THEN /\ response.departures.t = "list"
                /\ Len(response.departures.items) =
                     CountMessages(GroupsOf(FirstMatch(transit)), TRUE)
                     + CountMessages(GroupsOf(FirstMatch(transit)), FALSE)
           ELSE response.departures = JNull

\* C6: every record's direction is "To New York" or "To New Jersey"; the
\* records that say "To New York" are as many as the messages of the groups
\* labelled "ToNY", and all the others (any other label, an empty one, none)
\* say "To New Jersey".
C6_Direction ==
    ReturnedList =>
        LET out == response.departures.items
            groups == GroupsOf(FirstMatch(transit))
        IN /\ \A j \in 1..Len(out) :
                out[j].direction \in {"To New York", "To New Jersey"}
           /\ CountWhere(out, "To New York") = CountMessages(groups, TRUE)
           /\ CountWhere(out, "To New Jersey") = CountMessages(groups, FALSE)

\* a group without label and a group with the empty label each gave a record,
\* beside a record of a group labelled ToNY
C6_Witness ==
    /\ ReturnedList
    /\ CountWhere(response.departures.items, "To New York") >= 1
    /\ \E g \in 1..Len(GroupsOf(FirstMatch(transit))) :
          LET grp == GroupsOf(FirstMatch(transit))[g]
          IN grp.t = "obj" /\ "label" \notin DOMAIN grp.m /\ Len(MessagesOf(grp)) >= 1
    /\ \E g \in 1..Len(GroupsOf(FirstMatch(transit))) :
          LET grp == GroupsOf(FirstMatch(transit))[g]
          IN IsToNY(grp) /\ Len(MessagesOf(grp)) >= 1

\* C9: the returned list is a stable sort of the flattening: one record per
\* message, records that tie keep the order of the payload, and a record
\* with the default 0 is ordered as the number 0.
C9_StableSort ==
    ReturnedList =>
        LET out == response.departures.items
            st == FirstMatch(transit)
            flat == Flatten(st).v
        IN /\ Len(out) = CountMessages(GroupsOf(st), TRUE)
                         + CountMessages(GroupsOf(st), FALSE)
           /\ \A j \in 1..Len(flat) :
                LET Ties(x) == Tie(flat[j], x)
                IN SelectSeq(out, Ties) = SelectSeq(flat, Ties)
           /\ \A a, b \in 1..Len(out) :
                (a < b /\ out[b].seconds_to_arrival = JInt(0)) =>
                    /\ IsNumeric(out[a].seconds_to_arrival)
                    /\ NumericValue(out[a].seconds_to_arrival) = 0

\* the sort moved a record, and two records that tie at 0, the first of them
\* by default, stand in the order of the payload
C9_Witness ==
    /\ ReturnedList
    /\ LET out == response.departures.items
           flat == Flatten(FirstMatch(transit)).v
       IN /\ out # flat
          /\ \E a, b \in 1..Len(out) :
                /\ a < b
                /\ out[a].seconds_to_arrival = JInt(0)
                /\ out[b].seconds_to_arrival = JStr(<<"0">>)

(***************************************************************************)
(* What the weather answers hold, read off the answers themselves.         *)
(***************************************************************************)
WeatherDone == pc = "done"

IsNumber(v) == v.t \in {"int", "float"}

\* the request succeeded: the provider sent a JSON object whose
\* current_weather and daily, where present, are objects, with a number for
\* the temperature and a code that is no list
Succeeded(answer) ==
    /\ answer.kind = "json"
    /\ answer.body.t = "obj"
    /\ LET data == answer.body.m
       IN /\ "current_weather" \in DOMAIN data =>
                /\ data["current_weather"].t = "obj"
                /\ LET current == data["current_weather"].m
                   IN /\ "temperature" \in DOMAIN current =>
                            IsNumber(current["temperature"])
                      /\ "weathercode" \in DOMAIN current =>
                            current["weathercode"].t \notin {"list", "obj"}
          /\ "daily" \in DOMAIN data => data["daily"].t = "obj"

\* the request failed whatever came before it: no JSON object, or a
\* current_weather that cannot be read
RequestFailed(answer) ==
    \/ answer.kind # "json"
    \/ answer.body.t # "obj"
    \/ LET data == answer.body.m
       IN "current_weather" \in DOMAIN data /\
            \/ data["current_weather"].t # "obj"
            \/ LET current == data["current_weather"].m
               IN \/ "temperature" \in DOMAIN current /\ ~IsNumber(current["temperature"])
                  \/ "weathercode" \in DOMAIN current
                        /\ current["weathercode"].t \in {"list", "obj"}

DailyList(answer, key) ==
    LET data == answer.body.m
    IN IF /\ "daily" \in DOMAIN data
          /\ data["daily"].t = "obj"
          /\ key \in DOMAIN data["daily"].m
          /\ data["daily"].m[key].t = "list"
       THEN data["daily"].m[key].items
       ELSE <<>>

\* the answer supplies non-empty sunrise and sunset lists
Supplies(answer) ==
    DailyList(answer, "sunrise") # <<>> /\ DailyList(answer, "sunset") # <<>>

\* "YYYY-MM-DDTHH:MM" with an hour and a minute of the clock
IsLocalTimestamp(v) ==
    /\ v.t = "str"
    /\ Len(v.s) = 16
    /\ v.s[11] = "T" /\ v.s[14] = ":"
    /\ IsDigit(SubSeq(v.s, 12, 13)) /\ CharsToNat(SubSeq(v.s, 12, 13)) < 24
    /\ IsDigit(SubSeq(v.s, 15, 16)) /\ CharsToNat(SubSeq(v.s, 15, 16)) < 60

Parses(answer) ==
    /\ IsLocalTimestamp(DailyList(answer, "sunrise")[1])
    /\ IsLocalTimestamp(DailyList(answer, "sunset")[1])

\* the HH:MM of the first entry of a daily list
ClockOf(answer, key) == JStr(SubSeq(DailyList(answer, key)[1].s, 12, 16))

\* a zero-padded five-character HH:MM of the clock
IsHHMM(cs) ==
    /\ Len(cs) = 5
    /\ cs[3] = ":"
    /\ IsDigit(SubSeq(cs, 1, 2)) /\ CharsToNat(SubSeq(cs, 1, 2)) <= 23
    /\ IsDigit(SubSeq(cs, 4, 5)) /\ CharsToNat(SubSeq(cs, 4, 5)) <= 59

(***************************************************************************)
(* The claims about /api/weather.                                          *)
(***************************************************************************)

\* C1: the two weather requests fail independently: a location whose request
\* succeeded gets its real snapshot, not the "N/A" placeholder, whatever
\* happened to the other request.
C1_IndependentFailures ==
    WeatherDone =>
        \A j \in 1..Len(answers) :
            Succeeded(answers[j]) =>
                response.weather[LocationKeys[j]].temperature_c # NotAvailable

C10_TwoRequests ==
    WeatherDone => requests = <<"jersey_city", "manhattan">>

====
